---- MODULE Spec2Model ----
(***************************************************************************)
(* Order / inventory consistency engine of the car dealership back office. *)
(* The relational store is the state; every request handler of             *)
(* orderController.js and sparePartController.js is an action.             *)
(***************************************************************************)
EXTENDS Integers, Sequences, FiniteSets, TLC

\* ---------------------------------------------------------------- bounds
NumCars == 2
NumParts == 2
NumUsers == 1
MaxStock == 2
MaxOrders == 2
MaxItems == 2
MaxItemRows == 2
MaxQty == 2
NumProcs == 2
MaxNotes == 2
MaxAdjusted == 2
MaxServices == 2
MaxTime == 4
NumServiceTypes == 1
MaxPrice == 2
NumOthers == 1
NumEmails == 2
NumSalts == 2
MaxDiscount == 2

\* ------------------------------------------------------------ value sets
Cars == 1..NumCars
Parts == 1..NumParts
Users == 1..NumUsers
Procs == 1..NumProcs

\* ids a request may carry: 0 is "absent" (falsy), the last one names no row
PartIds == 1..(NumParts + 1)

CarStatuses == {"AVAILABLE", "SOLD", "RESERVED", "MAINTENANCE"}
OrderStatuses == {"PENDING", "PROCESSING", "SHIPPED", "DELIVERED", "CANCELLED"}
PaymentStatuses == {"UNPAID", "PARTIAL", "PAID", "REFUNDED"}

VARIABLES
    stock,      \* spare_parts.stock, by part id
    carStatus,  \* cars.status, by car id
    orders,     \* the orders table: orders[id] is the row with that id
    items,      \* the order_items table, in insertion order
    stock0,     \* spare_parts.stock before the first request
    hist,       \* per order, what its creation found (kept by SpecCreateCancel)
    notes,      \* orders.notes, by order id: how many notes were appended
    adjusted,   \* per part, the net of the stock adjustments (kept by SpecLedger)
    services,   \* the services table: services[id] is the row with that id
    now,        \* the clock new Date() reads, in hours
    accounts,   \* users.password, by email (kept by SpecAuth)
    procs,      \* the createOrder calls in flight (run by SpecConcurrent)
    resp        \* the last request served and the response it was sent

dbVars == <<stock, carStatus, orders, items>>
vars ==
    <<stock, carStatus, orders, items, notes, stock0, hist, adjusted, services, now,
      accounts, procs, resp>>

\* the committed database as one value
DB ==
    [stock |-> stock, carStatus |-> carStatus, orders |-> orders, items |-> items,
     notes |-> notes]

\* ------------------------------------------------------------- accounts
Emails == 1..NumEmails

\* a string that is a password or a bcrypt hash: the password it comes from
\* and the salts of the hashes applied to it, the innermost first
NoPassword == [plain |-> "none", salts |-> <<>>]

\* the users table before the first signup: no email has a row
NoAccounts == [e \in Emails |-> NoPassword]

\* ------------------------------------------------------------- requests
\* an amount (unitPrice, discount, totalPrice) is in minor currency units;
\* NoAmount is an item that leaves the field out
NoAmount == 0 - 1

\* an item of req.body.items that states its part, its quantity and a
\* unitPrice of one unit, and nothing else
Item(p, q) ==
    [sparePartId |-> p, quantity |-> q, unitPrice |-> 1, discount |-> NoAmount,
     totalPrice |-> NoAmount]

ItemReqs == {Item(p, q) : p \in Parts, q \in 1..MaxQty}

RECURSIVE SeqsUpTo(_, _)
SeqsUpTo(S, n) ==
    IF n = 0 THEN {<<>>}
    ELSE LET shorter == SeqsUpTo(S, n - 1)
         IN shorter \cup {Append(s, x) : s \in {t \in shorter : Len(t) = n - 1}, x \in S}

ItemLists == SeqsUpTo(ItemReqs, MaxItems)

\* a field the request body leaves out is "none"
Opt(S) == S \cup {"none"}

DefaultTo(v, d) == IF v = "none" THEN d ELSE v

\* the bodies POST /api/orders is sent; a field left out is "none", no car is 0
Bodies(users, cars, lists, statuses, pays) ==
    [userId : users, carId : cars, items : lists, status : statuses, paymentStatus : pays]

\* Order.carId: "Only applicable for car orders, null for spare parts orders":
\* an order for a car, which may state its own status and paymentStatus
CarBodies == Bodies(Users, Cars, {<<>>}, Opt(OrderStatuses), Opt({"PAID"}))

\* an order for spare parts (or for nothing at all)
PartBodies == Bodies(Users, {0}, ItemLists, {"none"}, {"none"})

\* bodies that name no user, or a user or a car that is no row
BadUserBodies == Bodies({0, NumUsers + 1}, {0}, {<<>>}, {"none"}, {"none"})

BadCarBodies == Bodies(Users, {NumCars + 1}, {<<>>}, {"none"}, {"none"})

\* bodies whose last item names a part that is no row, or a quantity below 1
BadItemBodies(cars) ==
    Bodies(Users, cars,
           {Append(l, Item(NumParts + 1, 1)) :
               l \in SeqsUpTo(ItemReqs, MaxItems - 1)}
           \cup {<<Item(1, 0)>>},
           {"none"}, {"none"})

\* what is recorded of a served request: the handler, the HTTP status and the
\* error it answered with, the row it was about (created, for createOrder),
\* the item it failed at, the carId of a createOrder body and, of a created
\* order, the status and paymentStatus its body stated and the paymentStatus
\* the row was given
Resp(op, r, carId, status, pay) ==
    [op |-> op, code |-> r.code, err |-> r.err, id |-> r.id, at |-> r.at,
     carId |-> carId, status |-> status, pay |-> pay,
     paymentStatus |-> r.paymentStatus]

NoResp ==
    [op |-> "none", code |-> 0, err |-> "", id |-> 0, at |-> 0,
     carId |-> 0, status |-> "none", pay |-> "none", paymentStatus |-> "none"]

\* ------------------------------------------------------------ the models
\* SparePart.stock: validate { min: 0 }, run by instance.update
StockValid(s) == s >= 0

\* ------------------------------------------------- transaction plumbing
\* transaction.commit(): the transaction's writes become the database
Commit(db, tx) == tx

RollbackKeepsWrites(db, tx) == tx

\* transaction.rollback(): the database is what it was before the transaction
Rollback(db, tx) == db

\* the outcome of a handler: the database it leaves and what it answers
Outcome(db, code, err, id, at) ==
    [db |-> db, code |-> code, err |-> err, id |-> id, at |-> at,
     paymentStatus |-> "none"]

\* ---------------------------------------------------------- createOrder
\* express-validator rules of POST /api/orders, as validationResult sees them
validationResult(req) ==
    /\ req.userId # 0
    /\ \A i \in 1..Len(req.items) : req.items[i].quantity >= 1

CarAvailableExceptSold(st) == st # "SOLD"

\* car.status !== 'AVAILABLE' is the refusal
CarAvailable(st) == st = "AVAILABLE"

DeductOne(s, q) == s - 1

\* stock: sparePart.stock - quantity
DeductStock(s, q) == s - q

totalPriceWithoutDiscount(unitPrice, quantity, discount) == unitPrice * quantity

\* const totalPrice = (unitPrice * quantity) - discount
totalPriceOf(unitPrice, quantity, discount) == (unitPrice * quantity) - discount

\* OrderItem's beforeValidate hook: if (orderItem.unitPrice &&
\* orderItem.quantity) the totalPrice is computed again; 0 is falsy
beforeValidate(orderItem) ==
    IF orderItem.unitPrice # 0 /\ orderItem.quantity # 0
    THEN [orderItem EXCEPT !.totalPrice =
             (orderItem.unitPrice * orderItem.quantity) - orderItem.discount]
    ELSE orderItem

\* OrderItem: quantity min 1, unitPrice allowNull false and min 0, totalPrice
\* min 0, discount min 0 (a unitPrice left out makes unitPrice undefined and
\* totalPrice NaN)
OrderItemValid(orderItem) ==
    /\ orderItem.quantity >= 1
    /\ orderItem.unitPrice # NoAmount
    /\ orderItem.unitPrice >= 0
    /\ orderItem.totalPrice >= 0
    /\ orderItem.discount >= 0

\* the row OrderItem.create validates for an item of the body: const {
\* sparePartId, quantity, unitPrice, discount = 0 } = item, the item's own
\* totalPrice is not read
OrderItem(orderId, item) ==
    LET discount == IF item.discount = NoAmount THEN 0 ELSE item.discount
    IN beforeValidate(
           [orderId |-> orderId, sparePartId |-> item.sparePartId,
            quantity |-> item.quantity, unitPrice |-> item.unitPrice,
            discount |-> discount,
            totalPrice |-> totalPriceOf(item.unitPrice, item.quantity, discount)])

\* the for-loop over req.body.items, from item i on, inside transaction tx;
\* err is "" when the loop ran to its end
RECURSIVE processItems(_, _, _, _)
processItems(tx, orderId, its, i) ==
    IF i > Len(its) THEN Outcome(tx, 0, "", orderId, 0)
    ELSE LET p == its[i].sparePartId
             q == its[i].quantity
         IN IF p \notin Parts THEN Outcome(tx, 404, "PartNotFound", 0, i)
            ELSE IF tx.stock[p] < q THEN Outcome(tx, 400, "InsufficientStock", 0, i)
            ELSE LET orderItem == OrderItem(orderId, its[i])
                     created == [tx EXCEPT !.items = Append(@, orderItem)]
                     newStock == DeductStock(tx.stock[p], q)
                 IN IF ~OrderItemValid(orderItem)
                    THEN Outcome(tx, 500, "Internal", 0, i)
                    ELSE IF ~StockValid(newStock)
                    THEN Outcome(created, 500, "Internal", 0, i)
                    ELSE processItems([created EXCEPT !.stock[p] = newStock],
                                      orderId, its, i + 1)

\* a destructuring default: status = 'PENDING', paymentStatus = 'UNPAID'
BodyField(v, d) == DefaultTo(v, d)

createOrder(db, req) ==
    IF ~validationResult(req) THEN Outcome(db, 400, "Validation", 0, 0)
    ELSE IF req.userId \notin Users
    THEN Outcome(Rollback(db, db), 404, "UserNotFound", 0, 0)
    ELSE IF req.carId # 0 /\ req.carId \notin Cars
    THEN Outcome(Rollback(db, db), 404, "CarNotFound", 0, 0)
    ELSE IF req.carId # 0 /\ ~CarAvailable(db.carStatus[req.carId])
    THEN Outcome(Rollback(db, db), 400, "CarNotAvailable", 0, 0)
    ELSE LET id == Len(db.orders) + 1
             order == [userId |-> req.userId, carId |-> req.carId,
                       status |-> BodyField(req.status, "PENDING")]
             paymentStatus == BodyField(req.paymentStatus, "UNPAID")
             tx1 == [db EXCEPT !.orders = Append(@, order)]
             r == processItems(tx1, id, req.items, 1)
         IN IF r.err # ""
            THEN Outcome(Rollback(db, r.db), r.code, r.err, 0, r.at)
            ELSE LET tx2 == IF req.carId # 0
                            THEN [r.db EXCEPT !.carStatus[req.carId] = "RESERVED"]
                            ELSE r.db
                 IN [Outcome(Commit(db, tx2), 201, "", id, 0)
                        EXCEPT !.paymentStatus = paymentStatus]

\* ---------------------------------------------------- updateOrderStatus
IncrementByOne(s, q) == s + 1

\* SparePart.increment({ stock: item.quantity }, { where: { id } })
Increment(s, q) == s + q

\* the for-loop restoring stock over the items of order id, from row i on
RECURSIVE restoreStock(_, _, _)
restoreStock(tx, id, i) ==
    IF i > Len(tx.items) THEN tx
    ELSE LET item == tx.items[i]
         IN IF item.orderId = id /\ item.sparePartId # 0
            THEN restoreStock(
                     [tx EXCEPT !.stock[item.sparePartId] = Increment(@, item.quantity)],
                     id, i + 1)
            ELSE restoreStock(tx, id, i + 1)

carStatusUnlessDelivered(status, previousStatus) ==
    IF status = "CANCELLED" /\ previousStatus = "RESERVED" THEN "AVAILABLE" ELSE "none"

\* the car status a status change asks for; "none" leaves carStatus undefined
\* (previousStatus is the ORDER's previous status)
carStatusFor(status, previousStatus) ==
    IF status = "DELIVERED" THEN "SOLD"
    ELSE IF status = "CANCELLED" /\ previousStatus = "RESERVED" THEN "AVAILABLE"
    ELSE "none"

StatusGiven(status, previousStatus) == status # "none"

\* if (status && status !== previousStatus)
StatusChanged(status, previousStatus) == status # "none" /\ status # previousStatus

updateOrderStatus(db, id, status) ==
    IF id \notin 1..Len(db.orders)
    THEN Outcome(Rollback(db, db), 404, "OrderNotFound", 0, 0)
    ELSE LET order == db.orders[id]
             previousStatus == order.status
             changed == StatusChanged(status, previousStatus)
             carSt == carStatusFor(status, previousStatus)
             tx1 == IF changed /\ order.carId # 0 /\ carSt # "none"
                    THEN [db EXCEPT !.carStatus[order.carId] = carSt]
                    ELSE db
             tx2 == IF changed /\ status = "CANCELLED"
                       /\ previousStatus \in {"PENDING", "PROCESSING"}
                    THEN restoreStock(tx1, id, 1)
                    ELSE tx1
             tx3 == IF changed THEN [tx2 EXCEPT !.orders[id].status = status] ELSE tx2
         IN Outcome(Commit(db, tx3), 200, "", id, 0)

\* ---------------------------------------------------------- cancelOrder
CancellableUnlessCancelled(status) == status # "CANCELLED"

\* if (order.status === 'DELIVERED' || order.status === 'CANCELLED') refuses
Cancellable(status) == ~(status = "DELIVERED" \/ status = "CANCELLED")

\* cancelOrder when its failAt-th write (1 order.update, 2 Car.update, 3 the
\* first SparePart.increment) is refused by the database; 0 when none is. The
\* note order.update appends is counted in notes.
cancelOrderWith(db, id, failAt) ==
    IF id \notin 1..Len(db.orders)
    THEN Outcome(Rollback(db, db), 404, "OrderNotFound", 0, 0)
    ELSE LET order == db.orders[id]
         IN IF ~Cancellable(order.status)
            THEN Outcome(Rollback(db, db), 400, "InvalidState", id, 0)
            ELSE IF failAt = 1
            THEN Outcome(Rollback(db, db), 500, "Internal", id, 0)
            ELSE LET tx1 == [db EXCEPT !.orders[id].status = "CANCELLED",
                                       !.notes[id] = @ + 1]
                     tx2 == IF order.carId # 0
                            THEN [tx1 EXCEPT !.carStatus[order.carId] = "AVAILABLE"]
                            ELSE tx1
                     tx3 == restoreStock(tx2, id, 1)
                 IN IF failAt = 2 /\ order.carId # 0
                    THEN Outcome(Rollback(db, tx1), 500, "Internal", id, 0)
                    ELSE IF failAt = 3 /\ tx3 # tx2
                    THEN Outcome(Rollback(db, tx2), 500, "Internal", id, 0)
                    ELSE Outcome(Commit(db, tx3), 200, "", id, 0)

cancelOrder(db, id) == cancelOrderWith(db, id, 0)

\* ------------------------------------------- adjustStock, updateSparePart
adjustStockUnchecked(db, id, quantity, operation) ==
    IF id \notin Parts THEN Outcome(db, 404, "PartNotFound", id, 0)
    ELSE Outcome([db EXCEPT !.stock[id] =
                      IF operation = "add" THEN @ + quantity ELSE @ - quantity],
                 200, "", id, 0)

adjustmentDetailsOfNewStock(newStock, quantity, operation) ==
    [previousStock |-> newStock, currentStock |-> newStock]

\* adjustmentDetails of the 200 answer: previousStock is computed back from
\* newStock, currentStock is newStock
adjustmentDetails(newStock, quantity, operation) ==
    [previousStock |-> IF operation = "add" THEN newStock - quantity
                       ELSE newStock + quantity,
     currentStock |-> newStock]

adjustStock(db, id, quantity, operation) ==
    IF operation \notin {"add", "subtract"} THEN Outcome(db, 400, "Validation", id, 0)
    ELSE IF quantity <= 0 THEN Outcome(db, 400, "Validation", id, 0)
    ELSE IF id \notin Parts THEN Outcome(db, 404, "PartNotFound", id, 0)
    ELSE IF operation = "subtract" /\ db.stock[id] < quantity
    THEN Outcome(db, 400, "InsufficientStock", id, 0)
    ELSE LET newStock == IF operation = "add" THEN db.stock[id] + quantity
                         ELSE db.stock[id] - quantity
         IN IF ~StockValid(newStock) THEN Outcome(db, 500, "Internal", id, 0)
            ELSE Outcome([db EXCEPT !.stock[id] = newStock], 200, "", id, 0)
                 @@ adjustmentDetails(newStock, quantity, operation)

\* PUT /api/spare-parts/:id with a body that sets stock (isInt({ min: 0 }))
updateSparePart(db, id, newStock) ==
    IF newStock < 0 THEN Outcome(db, 400, "Validation", id, 0)
    ELSE IF id \notin Parts THEN Outcome(db, 404, "PartNotFound", id, 0)
    ELSE IF ~StockValid(newStock) THEN Outcome(db, 500, "Internal", id, 0)
    ELSE Outcome([db EXCEPT !.stock[id] = newStock], 200, "", id, 0)

\* ------------------------------------------------------------- actions
\* the model keeps the tables and the counters within its bounds
Bounded(db) ==
    /\ Len(db.orders) <= MaxOrders
    /\ Len(db.items) <= MaxItemRows
    /\ \A p \in Parts : db.stock[p] <= MaxStock

\* serving a request: the database the handler leaves, and (when the run
\* observes responses) the record of what was answered
Serve(r, op, carId, status, pay, observed) ==
    /\ Bounded(r.db)
    /\ stock' = r.db.stock
    /\ carStatus' = r.db.carStatus
    /\ orders' = r.db.orders
    /\ items' = r.db.items
    /\ resp' = IF observed
               THEN Resp(op, r, carId, status, pay)
               ELSE resp
    /\ UNCHANGED <<stock0, accounts, procs, notes, adjusted, services, now>>

ServeCreateOrder(r, req, observed) ==
    IF r.code = 201
    THEN Serve(r, "createOrder", req.carId, req.status, req.paymentStatus, observed)
    ELSE Serve(r, "createOrder", req.carId, "none", "none", observed)

CreateOrderFrom(bodies, observed) ==
    /\ \E req \in bodies : ServeCreateOrder(createOrder(DB, req), req, observed)
    /\ UNCHANGED hist

UpdateOrderStatusOf(observed) ==
    /\ \E id \in 1..(MaxOrders + 1), status \in Opt(OrderStatuses) :
          Serve(updateOrderStatus(DB, id, status), "updateOrderStatus",
                0, status, "none", observed)
    /\ UNCHANGED hist

CancelOrderOf(observed) ==
    /\ \E id \in 1..(MaxOrders + 1) :
          Serve(cancelOrder(DB, id), "cancelOrder", 0, "none", "none", observed)
    /\ UNCHANGED hist

AdjustStockOf(observed) ==
    /\ \E id \in PartIds, quantity \in 0..MaxQty, operation \in {"add", "subtract"} :
          Serve(adjustStock(DB, id, quantity, operation), "adjustStock",
                0, "none", "none", observed)
    /\ UNCHANGED hist

UpdateSparePartOf(observed) ==
    /\ \E id \in PartIds, newStock \in (0 - 1)..MaxStock :
          Serve(updateSparePart(DB, id, newStock), "updateSparePart",
                0, "none", "none", observed)
    /\ UNCHANGED hist

\* the body of a call that has not arrived
NoBody ==
    [userId |-> 0, carId |-> 0, items |-> <<>>, status |-> "none",
     paymentStatus |-> "none"]

\* a call that has not arrived yet: where it stands, its body, the item it is
\* at, the stock its findByPk read, the rows its transaction wrote and the row
\* locks it holds, and what it answered
Idle ==
    [pc |-> "idle", req |-> NoBody,
     i |-> 0, seen |-> 0, wOrder |-> FALSE, wItems |-> <<>>,
     wStock |-> [p \in Parts |-> 0 - 1], wCar |-> "none",
     s |-> {}, x |-> {}, code |-> 0, err |-> ""]

\* the state before the first request: full shelves, no orders, and the cars in
\* inMaintenance in the workshop
InitWith(inMaintenance) ==
    /\ stock = [p \in Parts |-> MaxStock]
    /\ procs = [q \in Procs |-> Idle]
    /\ carStatus = [c \in Cars |-> IF c \in inMaintenance THEN "MAINTENANCE"
                                   ELSE "AVAILABLE"]
    /\ orders = <<>>
    /\ items = <<>>
    /\ stock0 = stock
    /\ hist = <<>>
    /\ notes = [i \in 1..MaxOrders |-> 0]
    /\ adjusted = [p \in Parts |-> 0]
    /\ services = <<>>
    /\ now = 0
    /\ accounts = NoAccounts
    /\ resp = NoResp

\* ------------------------------------------ car orders, one at a time
CarCreateOrder == CreateOrderFrom(CarBodies \cup BadUserBodies \cup BadCarBodies, TRUE)

CarUpdateOrderStatus == UpdateOrderStatusOf(TRUE)

CarCancelOrder == CancelOrderOf(TRUE)

CarInit == InitWith({}) \/ InitWith({1})

CarNext == CarCreateOrder \/ CarUpdateOrderStatus \/ CarCancelOrder

SpecCars == CarInit /\ [][CarNext]_vars

\* the orders that reference car c and whose status is not in done
OrdersOn(c, done) ==
    {i \in 1..Len(orders) : orders[i].carId = c /\ orders[i].status \notin done}

\* C3: no car is ever double-sold: after any sequence of CreateOrder,
\* UpdateOrderStatus and CancelOrder calls, every car is referenced by at most
\* one order that is not CANCELLED and by at most one order that is not in a
\* terminal state (DELIVERED or CANCELLED).
C3_NoCarDoubleSold ==
    \A c \in Cars :
        /\ Cardinality(OrdersOn(c, {"CANCELLED"})) <= 1
        /\ Cardinality(OrdersOn(c, {"DELIVERED", "CANCELLED"})) <= 1

\* C7: a CreateOrder whose carId names a car that is not AVAILABLE is answered
\* 400 "Car is not available for purchase" and leaves the orders, the order
\* items, every car status and every stock as they were.
C7_UnavailableCarRefused ==
    [][(/\ resp'.op = "createOrder"
        /\ resp'.carId \in Cars
        /\ carStatus[resp'.carId] # "AVAILABLE")
       => (/\ resp'.code = 400
           /\ resp'.err = "CarNotAvailable"
           /\ UNCHANGED dbVars)]_vars

\* C7 witness: a CreateOrder for a SOLD car has just been refused.
C7_Witness ==
    /\ resp.op = "createOrder"
    /\ resp.err = "CarNotAvailable"
    /\ resp.carId \in Cars
    /\ carStatus[resp.carId] = "SOLD"

\* C8: every successful CreateOrder leaves the new order PENDING (and UNPAID
\* unless the body states a paymentStatus) and, when it names a car, that car
\* RESERVED.
C8_CreatedPendingCarReserved ==
    (resp.op = "createOrder" /\ resp.code = 201)
    => (/\ orders[resp.id].status = "PENDING"
        /\ (resp.pay = "none" => resp.paymentStatus = "UNPAID")
        /\ (resp.carId # 0 => carStatus[resp.carId] = "RESERVED"))

\* C10: UpdateOrderStatus to CANCELLED of an order that is PENDING or
\* PROCESSING adds each item's quantity back to its part's stock and, when the
\* order's car is RESERVED (for this order), makes that car AVAILABLE again.
C10_CancelByStatusRestores ==
    [][(/\ resp'.op = "updateOrderStatus"
        /\ resp'.code = 200
        /\ orders[resp'.id].status \in {"PENDING", "PROCESSING"}
        /\ orders'[resp'.id].status = "CANCELLED")
       => (/\ \A p \in Parts :
                 stock'[p] = restoreStock(DB, resp'.id, 1).stock[p]
           /\ LET c == orders[resp'.id].carId
              IN (c # 0 /\ carStatus[c] = "RESERVED") => carStatus'[c] = "AVAILABLE")]_vars

\* ----------------------------------- spare-part orders, one at a time
PartCreateOrder == CreateOrderFrom(PartBodies \cup BadItemBodies({0}), TRUE)

PartUpdateOrderStatus == UpdateOrderStatusOf(TRUE)

PartCancelOrder == CancelOrderOf(TRUE)

PartInit == InitWith({})

PartNext == PartCreateOrder \/ PartUpdateOrderStatus \/ PartCancelOrder

SpecParts == PartInit /\ [][PartNext]_vars

\* the quantity the rows of order id in table rows ask of part p, from row i on
RECURSIVE QuantityOrdered(_, _, _, _)
QuantityOrdered(rows, id, p, i) ==
    IF i > Len(rows) THEN 0
    ELSE (IF rows[i].orderId = id /\ rows[i].sparePartId = p THEN rows[i].quantity ELSE 0)
         + QuantityOrdered(rows, id, p, i + 1)

\* C4: for every successful CreateOrder and every spare part, the stock before
\* the call minus the stock after it is the sum of the quantities of the
\* order's items naming that part (also when several items name it), and the
\* stock after it is not negative.
C4_DeductionIsSumOfQuantities ==
    [][(resp'.op = "createOrder" /\ resp'.code = 201)
       => \A p \in Parts :
              /\ stock[p] - stock'[p] = QuantityOrdered(items', resp'.id, p, 1)
              /\ stock'[p] >= 0]_vars

\* C4 witness: an order was just created with two items naming the same part.
C4_Witness ==
    /\ resp.op = "createOrder"
    /\ resp.code = 201
    /\ \E i, j \in 1..Len(items) :
          /\ i < j
          /\ items[i].orderId = resp.id
          /\ items[j].orderId = resp.id
          /\ items[i].sparePartId = items[j].sparePartId

\* ------------- every operation that writes spare_parts.stock, one at a time
StockCreateOrder == CreateOrderFrom(PartBodies \cup BadItemBodies({0}), FALSE)

StockUpdateOrderStatus == UpdateOrderStatusOf(FALSE)

StockCancelOrder == CancelOrderOf(FALSE)

StockAdjustStock == AdjustStockOf(FALSE)

StockUpdateSparePart == UpdateSparePartOf(FALSE)

StockInit == InitWith({})

StockNext ==
    \/ StockCreateOrder
    \/ StockUpdateOrderStatus
    \/ StockCancelOrder
    \/ StockAdjustStock
    \/ StockUpdateSparePart

SpecStock == StockInit /\ [][StockNext]_vars

\* C5: in every reachable state every spare part has stock >= 0, whatever the
\* sequence of CreateOrder, UpdateOrderStatus, CancelOrder, AdjustStock and
\* spare-part update calls.
C5_StockNeverNegative == \A p \in Parts : stock[p] >= 0

\* C5 witness: orders have taken the last unit of a part that explicit
\* adjustment had lowered before.
C5_Witness ==
    \E p \in Parts :
        /\ stock[p] = 0
        /\ \E i \in 1..Len(items) :
              /\ items[i].sparePartId = p
              /\ orders[items[i].orderId].status = "PENDING"
              /\ items[i].quantity < stock0[p]

\* ---- orders for cars and parts, created and cancelled, one at a time ----
\* the parts the items of a body, or the rows of an order, name
PartsOfBody(req) ==
    {req.items[i].sparePartId : i \in 1..Len(req.items)} \cap Parts

PartsOfOrder(rows, id) ==
    {rows[i].sparePartId : i \in {j \in 1..Len(rows) : rows[j].orderId = id}}

\* an order is related to another when they name the same car or a same part
Related(car1, parts1, car2, parts2) ==
    \/ car1 # 0 /\ car1 = car2
    \/ parts1 \cap parts2 # {}

\* what the creation of an order found: the stock of the parts it names, the
\* status of its car, and whether only unrelated orders were created or
\* cancelled since
Found(db, req) ==
    [stock |-> [p \in Parts |-> IF p \in PartsOfBody(req) THEN db.stock[p] ELSE 0],
     carStatus |-> IF req.carId \in Cars THEN db.carStatus[req.carId] ELSE "none",
     clean |-> TRUE]

Touch(h, rows, car, parts) ==
    [i \in 1..Len(h) |->
        IF Related(orders[i].carId, PartsOfOrder(rows, i), car, parts)
        THEN [h[i] EXCEPT !.clean = FALSE]
        ELSE h[i]]

CreateCancelBodies ==
    Bodies(Users, 0..NumCars, ItemLists, {"none"}, {"none"})
    \cup BadItemBodies(0..NumCars)

CCCreateOrder ==
    \E req \in CreateCancelBodies :
        LET r == createOrder(DB, req)
        IN /\ ServeCreateOrder(r, req, TRUE)
           /\ hist' = IF r.code = 201
                      THEN Append(Touch(hist, items, req.carId, PartsOfBody(req)),
                                  Found(DB, req))
                      ELSE hist

CCCancelOrder ==
    \E id \in 1..(MaxOrders + 1) :
        LET r == cancelOrder(DB, id)
        IN /\ Serve(r, "cancelOrder", 0, "none", "none", TRUE)
           /\ hist' = IF r.code = 200
                      THEN [i \in 1..Len(hist) |->
                               IF i = id THEN hist[i]
                               ELSE Touch(hist, items, orders[id].carId,
                                          PartsOfOrder(items, id))[i]]
                      ELSE hist

CCInit == InitWith({})

CCNext == CCCreateOrder \/ CCCancelOrder

SpecCreateCancel == CCInit /\ [][CCNext]_vars

\* C6: CreateOrder is all-or-nothing: when it fails while processing an item
\* (a part that does not exist, a quantity above the current stock), the order
\* row, the order items already created and the stock already deducted for
\* earlier items are undone: stock, car status, orders and order items are
\* what they were before the call.
C6_CreateOrderAllOrNothing ==
    [][(/\ resp'.op = "createOrder"
        /\ resp'.err \in {"PartNotFound", "InsufficientStock"})
       => UNCHANGED dbVars]_vars

\* C6 witness: a CreateOrder for a car has just failed at its second item, for
\* want of the stock its first item had taken.
C6_Witness ==
    /\ resp.op = "createOrder"
    /\ resp.err = "InsufficientStock"
    /\ resp.at = 2
    /\ resp.carId \in Cars
    /\ \A p \in Parts : stock[p] = MaxStock

\* C9: CreateOrder followed by CancelOrder of the same order returns the stock
\* of every part the order consumed and the status of its car to what they
\* were before the CreateOrder, whatever CreateOrder and CancelOrder calls on
\* unrelated orders (other cars, other parts) happened in between.
C9_CancelUndoesCreate ==
    (/\ resp.op = "cancelOrder"
     /\ resp.code = 200
     /\ hist[resp.id].clean)
    => (/\ \A p \in PartsOfOrder(items, resp.id) : stock[p] = hist[resp.id].stock[p]
        /\ orders[resp.id].carId # 0
              => carStatus[orders[resp.id].carId] = hist[resp.id].carStatus)

\* C9 witness: the first order, for a car and two units of a part, has just
\* been cancelled after an unrelated second order was created.
C9_Witness ==
    /\ resp.op = "cancelOrder"
    /\ resp.code = 200
    /\ resp.id = 1
    /\ hist[1].clean
    /\ orders[1].carId # 0
    /\ \E i \in 1..Len(items) : items[i].orderId = 1 /\ items[i].quantity = 2
    /\ Len(orders) = 2
    /\ orders[2].carId # 0
    /\ PartsOfOrder(items, 2) # {}

\* -------------------------- createOrder calls running at the same time
\* Each await of createOrder is a step. A findByPk reads the committed row, or
\* the row the transaction itself wrote; an INSERT share-locks the row its
\* foreign key names and an UPDATE locks its row exclusively, both until the
\* transaction ends; COMMIT makes the writes the database.
CarRow(c) == <<"car", c>>

PartRow(p) == <<"part", p>>

CanShare(me, row) == \A q \in Procs \ {me} : row \notin procs[q].x

CanLock(me, row) == \A q \in Procs \ {me} : row \notin procs[q].x \cup procs[q].s

\* the row a call waits for, if it waits
WaitsFor(me) ==
    LET c == procs[me] IN
    IF c.pc = "insertOrder" /\ c.req.carId # 0 /\ ~CanShare(me, CarRow(c.req.carId))
    THEN {CarRow(c.req.carId)}
    ELSE IF c.pc = "insertItem" /\ ~CanShare(me, PartRow(c.req.items[c.i].sparePartId))
    THEN {PartRow(c.req.items[c.i].sparePartId)}
    ELSE IF c.pc = "updateStock" /\ ~CanLock(me, PartRow(c.req.items[c.i].sparePartId))
    THEN {PartRow(c.req.items[c.i].sparePartId)}
    ELSE IF c.pc = "reserveCar" /\ ~CanLock(me, CarRow(c.req.carId))
    THEN {CarRow(c.req.carId)}
    ELSE {}

\* the answer of a call, its transaction rolled back: writes and locks dropped
Answer(c, code, err) ==
    [c EXCEPT !.pc = "done", !.code = code, !.err = err, !.wOrder = FALSE,
              !.wItems = <<>>, !.wStock = Idle.wStock, !.wCar = "none",
              !.s = {}, !.x = {}]

\* where the call goes once its order row and its items are written
AfterItems(c) ==
    IF c.i < Len(c.req.items) THEN [c EXCEPT !.pc = "findPart", !.i = c.i + 1]
    ELSE IF c.req.carId # 0 THEN [c EXCEPT !.pc = "reserveCar"]
    ELSE [c EXCEPT !.pc = "commit"]

ConcurrentBodies ==
    Bodies(Users, 0..NumCars, SeqsUpTo(ItemReqs, MaxItems - 1), {"none"}, {"none"})

Step(me, c) ==
    /\ procs' = [procs EXCEPT ![me] = c]
    /\ UNCHANGED <<dbVars, notes, stock0, accounts, hist, adjusted, services, now, resp>>

\* sequelize.transaction(), validationResult
Begin(me) ==
    /\ procs[me].pc = "idle"
    /\ \E req \in ConcurrentBodies :
          Step(me, IF validationResult(req)
                   THEN [procs[me] EXCEPT !.pc = "findUser", !.req = req]
                   ELSE [procs[me] EXCEPT !.pc = "done", !.req = req, !.code = 400,
                                          !.err = "Validation"])

\* User.findByPk
FindUser(me) ==
    LET c == procs[me] IN
    /\ c.pc = "findUser"
    /\ Step(me, IF c.req.userId \notin Users THEN Answer(c, 404, "UserNotFound")
                ELSE IF c.req.carId # 0 THEN [c EXCEPT !.pc = "findCar"]
                ELSE [c EXCEPT !.pc = "insertOrder"])

\* Car.findByPk and the status check
FindCar(me) ==
    LET c == procs[me] IN
    /\ c.pc = "findCar"
    /\ Step(me, IF c.req.carId \notin Cars THEN Answer(c, 404, "CarNotFound")
                ELSE IF ~CarAvailable(carStatus[c.req.carId])
                THEN Answer(c, 400, "CarNotAvailable")
                ELSE [c EXCEPT !.pc = "insertOrder"])

\* Order.create
InsertOrder(me) ==
    LET c == procs[me] IN
    /\ c.pc = "insertOrder"
    /\ WaitsFor(me) = {}
    /\ Step(me, AfterItems([c EXCEPT !.wOrder = TRUE,
                                     !.s = IF c.req.carId # 0
                                           THEN @ \cup {CarRow(c.req.carId)} ELSE @]))

\* SparePart.findByPk and the stock check
FindPart(me) ==
    LET c == procs[me]
        p == c.req.items[c.i].sparePartId
        q == c.req.items[c.i].quantity
        read == IF p \in Parts
                THEN (IF c.wStock[p] >= 0 THEN c.wStock[p] ELSE stock[p])
                ELSE 0
    IN /\ c.pc = "findPart"
       /\ Step(me, IF p \notin Parts THEN Answer(c, 404, "PartNotFound")
                   ELSE IF read < q THEN Answer(c, 400, "InsufficientStock")
                   ELSE [c EXCEPT !.pc = "insertItem", !.seen = read])

\* OrderItem.create
InsertItem(me) ==
    LET c == procs[me]
        p == c.req.items[c.i].sparePartId
    IN /\ c.pc = "insertItem"
       /\ WaitsFor(me) = {}
       /\ Step(me, [c EXCEPT !.pc = "updateStock",
                             !.wItems = Append(@, c.req.items[c.i]),
                             !.s = @ \cup {PartRow(p)}])

\* sparePart.update({ stock: sparePart.stock - quantity })
UpdateStock(me) ==
    LET c == procs[me]
        p == c.req.items[c.i].sparePartId
        newStock == DeductStock(c.seen, c.req.items[c.i].quantity)
    IN /\ c.pc = "updateStock"
       /\ WaitsFor(me) = {}
       /\ Step(me, IF ~StockValid(newStock) THEN Answer(c, 500, "Internal")
                   ELSE AfterItems([c EXCEPT !.wStock[p] = newStock,
                                             !.x = @ \cup {PartRow(p)}]))

\* Car.update({ status: 'RESERVED' })
ReserveCar(me) ==
    LET c == procs[me] IN
    /\ c.pc = "reserveCar"
    /\ WaitsFor(me) = {}
    /\ Step(me, [c EXCEPT !.pc = "commit", !.wCar = "RESERVED",
                          !.x = @ \cup {CarRow(c.req.carId)}])

\* transaction.commit() and the 201 answer
CommitOrder(me) ==
    LET c == procs[me]
        id == Len(orders) + 1
    IN /\ c.pc = "commit"
       /\ orders' = Append(orders, [userId |-> c.req.userId, carId |-> c.req.carId,
                                    status |-> BodyField(c.req.status, "PENDING")])
       /\ items' = items \o [k \in 1..Len(c.wItems) |->
                                OrderItem(id, c.wItems[k])]
       /\ stock' = [p \in Parts |-> IF c.wStock[p] >= 0 THEN c.wStock[p] ELSE stock[p]]
       /\ carStatus' = IF c.wCar # "none"
                       THEN [carStatus EXCEPT ![c.req.carId] = c.wCar]
                       ELSE carStatus
       /\ procs' = [procs EXCEPT ![me] = [Answer(c, 201, "") EXCEPT !.code = 201]]
       /\ UNCHANGED <<notes, stock0, accounts, hist, adjusted, services, now, resp>>

\* the database ends a deadlock by failing one of the two waiting statements:
\* the call catches the error, rolls back and answers 500
Deadlock(me) ==
    /\ \E other \in Procs \ {me} :
          /\ WaitsFor(me) \cap (procs[other].s \cup procs[other].x) # {}
          /\ WaitsFor(other) \cap (procs[me].s \cup procs[me].x) # {}
    /\ Step(me, Answer(procs[me], 500, "Internal"))

ConcurrentInit ==
    /\ stock \in [Parts -> 1..MaxStock]
    /\ carStatus = [c \in Cars |-> "AVAILABLE"]
    /\ orders = <<>>
    /\ items = <<>>
    /\ stock0 = stock
    /\ hist = <<>>
    /\ notes = [i \in 1..MaxOrders |-> 0]
    /\ adjusted = [p \in Parts |-> 0]
    /\ services = <<>>
    /\ now = 0
    /\ accounts = NoAccounts
    /\ procs = [q \in Procs |-> Idle]
    /\ resp = NoResp

ConcurrentNext ==
    \E me \in Procs :
        \/ Begin(me)
        \/ FindUser(me)
        \/ FindCar(me)
        \/ InsertOrder(me)
        \/ FindPart(me)
        \/ InsertItem(me)
        \/ UpdateStock(me)
        \/ ReserveCar(me)
        \/ CommitOrder(me)
        \/ Deadlock(me)

SpecConcurrent == ConcurrentInit /\ [][ConcurrentNext]_vars

\* the calls that have answered 201
Succeeded == {q \in Procs : procs[q].pc = "done" /\ procs[q].code = 201}

\* C1: two concurrent CreateOrder calls for one unit each of a part whose stock
\* is 1 end, under every interleaving of their steps, with exactly one success
\* and one "not enough stock" refusal; never with two successes.
C1_OneUnitSoldOnce ==
    \A p \in Parts :
        (/\ stock0[p] = 1
         /\ \A q \in Procs :
               /\ procs[q].pc = "done"
               /\ procs[q].req.carId = 0
               /\ procs[q].req.items = <<Item(p, 1)>>)
        => (/\ Cardinality(Succeeded) = 1
            /\ \A q \in Procs \ Succeeded : procs[q].err = "InsufficientStock")

\* C2: two concurrent CreateOrder calls naming the same AVAILABLE car are
\* serialized: under every interleaving of the status check and the write of
\* RESERVED at most one of them succeeds, so no car is reserved by two orders.
C2_CarReservedOnce ==
    \A c \in Cars :
        Cardinality({q \in Succeeded : procs[q].req.carId = c}) <= 1

\* --------------------- orders for a car, a part or both, one at a time
\* bodies naming a car, one item of the first part, both or neither
OrderBodies ==
    Bodies(Users, 0..NumCars,
           {<<>>} \cup {<<Item(1, q)>> : q \in 1..MaxQty},
           {"none"}, {"none"})

OrderCreateOrder == CreateOrderFrom(OrderBodies, TRUE)

OrderUpdateOrderStatus == UpdateOrderStatusOf(TRUE)

OrderCancelOrder == CancelOrderOf(TRUE)

OrderInit == InitWith({})

OrderNext == OrderCreateOrder \/ OrderUpdateOrderStatus \/ OrderCancelOrder

SpecOrders == OrderInit /\ [][OrderNext]_vars

\* C11: UpdateOrderStatus is idempotent in its side effects: a call whose
\* target status is the status the order already has (DELIVERED on a DELIVERED
\* order, CANCELLED on a CANCELLED order, ...) changes no stock and no car
\* status.
C11_RepeatedStatusNoSideEffect ==
    [][(/\ resp'.op = "updateOrderStatus"
        /\ resp'.code = 200
        /\ resp'.status = orders[resp'.id].status)
       => UNCHANGED <<stock, carStatus>>]_vars

\* C11 witness: DELIVERED has just been asked of an order that was DELIVERED
\* already, and whose car has since left SOLD: the call did not sell it again.
C11_Witness ==
    /\ resp.op = "updateOrderStatus"
    /\ resp.code = 200
    /\ resp.status = "DELIVERED"
    /\ orders[resp.id].status = "DELIVERED"
    /\ orders[resp.id].carId # 0
    /\ carStatus[orders[resp.id].carId] # "SOLD"

\* C12: an UpdateOrderStatus that takes an order to DELIVERED makes the car
\* the order references SOLD (and touches no other car); when the order
\* references no car, no car status changes.
C12_DeliveredSellsCar ==
    [][(/\ resp'.op = "updateOrderStatus"
        /\ resp'.code = 200
        /\ resp'.status = "DELIVERED"
        /\ orders[resp'.id].status # "DELIVERED")
       => (IF orders[resp'.id].carId # 0
           THEN carStatus' = [carStatus EXCEPT ![orders[resp'.id].carId] = "SOLD"]
           ELSE UNCHANGED carStatus)]_vars

\* C12 witness: an order for a car has just been DELIVERED and its car is SOLD,
\* after an order without a car was DELIVERED while that car stayed RESERVED.
C12_Witness ==
    /\ resp.op = "updateOrderStatus"
    /\ resp.code = 200
    /\ resp.status = "DELIVERED"
    /\ Len(orders) = 2
    /\ orders[resp.id].carId # 0
    /\ carStatus[orders[resp.id].carId] = "SOLD"
    /\ \E i \in 1..Len(orders) : orders[i].carId = 0 /\ orders[i].status = "DELIVERED"

\* ------- cancellations with their notes and with database failures
\* serving a request in a run that follows orders.notes
ServeNoted(r, op) ==
    /\ Bounded(r.db)
    /\ \A i \in DOMAIN r.db.notes : r.db.notes[i] <= MaxNotes
    /\ stock' = r.db.stock
    /\ carStatus' = r.db.carStatus
    /\ orders' = r.db.orders
    /\ items' = r.db.items
    /\ notes' = r.db.notes
    /\ resp' = Resp(op, r, 0, "none", "none")
    /\ UNCHANGED <<stock0, accounts, hist, adjusted, services, now, procs>>

\* bodies naming the first car, an item of the first part, both or neither
NotedBodies ==
    Bodies(Users, {0, 1}, {<<>>, <<Item(1, MaxQty)>>},
           {"none"}, {"none"})

NotedCreateOrder ==
    \E req \in NotedBodies : ServeNoted(createOrder(DB, req), "createOrder")

NotedUpdateOrderStatus ==
    \E id \in 1..(MaxOrders + 1), status \in Opt(OrderStatuses) :
        ServeNoted(updateOrderStatus(DB, id, status), "updateOrderStatus")

NotedCancelOrder ==
    \E id \in 1..(MaxOrders + 1), failAt \in 0..3 :
        ServeNoted(cancelOrderWith(DB, id, failAt), "cancelOrder")

NotedInit == InitWith({})

NotedNext == NotedCreateOrder \/ NotedUpdateOrderStatus \/ NotedCancelOrder

SpecCancel == NotedInit /\ [][NotedNext]_vars

\* C13: CancelOrder of an order that is DELIVERED or CANCELLED is refused with
\* 400 (invalid state) and leaves the order's status and notes, every stock and
\* every car status as they were.
C13_TerminalOrderNotCancelled ==
    [][(/\ resp'.op = "cancelOrder"
        /\ resp'.id \in 1..Len(orders)
        /\ orders[resp'.id].status \in {"DELIVERED", "CANCELLED"})
       => (/\ resp'.code = 400
           /\ resp'.err = "InvalidState"
           /\ UNCHANGED <<orders, notes, stock, carStatus>>)]_vars

\* C13 witness: the cancellation of a DELIVERED order, whose car is SOLD and
\* whose items were taken from stock, has just been refused.
C13_Witness ==
    /\ resp.op = "cancelOrder"
    /\ resp.err = "InvalidState"
    /\ orders[resp.id].status = "DELIVERED"
    /\ orders[resp.id].carId # 0
    /\ carStatus[orders[resp.id].carId] = "SOLD"
    /\ \E i \in 1..Len(items) : items[i].orderId = resp.id
    /\ notes[resp.id] = 0

\* C14: CancelOrder of an order that is PENDING, PROCESSING or SHIPPED makes
\* the order CANCELLED, its car (if any) AVAILABLE and adds each item's
\* quantity back to its part's stock, in one transaction: when a write fails,
\* the call answers 500 and the order, its notes, every stock and every car
\* status are what they were.
C14_CancelOrderAtomic ==
    [][(/\ resp'.op = "cancelOrder"
        /\ resp'.id \in 1..Len(orders)
        /\ orders[resp'.id].status \in {"PENDING", "PROCESSING", "SHIPPED"})
       => LET id == resp'.id
              car == orders[id].carId
          IN \/ /\ resp'.code = 200
                /\ orders' = [orders EXCEPT ![id].status = "CANCELLED"]
                /\ carStatus' = IF car # 0
                                THEN [carStatus EXCEPT ![car] = "AVAILABLE"]
                                ELSE carStatus
                /\ \A p \in Parts :
                      stock'[p] = stock[p] + QuantityOrdered(items, id, p, 1)
                /\ items' = items
             \/ /\ resp'.code = 500
                /\ UNCHANGED <<orders, notes, stock, carStatus, items>>]_vars

\* C14 witness: the cancellation of a SHIPPED order has just failed at the
\* stock it was restoring, after its status and its car were written: the
\* order is still SHIPPED, its car RESERVED and the stock not restored.
C14_Witness ==
    /\ resp.op = "cancelOrder"
    /\ resp.code = 500
    /\ orders[resp.id].status = "SHIPPED"
    /\ orders[resp.id].carId # 0
    /\ carStatus[orders[resp.id].carId] = "RESERVED"
    /\ \E i \in 1..Len(items) :
          /\ items[i].orderId = resp.id
          /\ stock[items[i].sparePartId] = stock0[items[i].sparePartId] - items[i].quantity

\* C15: every order that references a car and is PENDING, PROCESSING or
\* SHIPPED has its car RESERVED; a car becomes SOLD only when an order on it
\* becomes DELIVERED, and AVAILABLE only when an order on it becomes CANCELLED
\* while the car was RESERVED.
C15_CarFollowsItsOrder ==
    [][/\ \A i \in 1..Len(orders') :
             (/\ orders'[i].carId # 0
              /\ orders'[i].status \in {"PENDING", "PROCESSING", "SHIPPED"})
             => carStatus'[orders'[i].carId] = "RESERVED"
       /\ \A c \in Cars :
             /\ (carStatus'[c] = "SOLD" /\ carStatus[c] # "SOLD")
                => \E i \in 1..Len(orders) :
                      /\ orders[i].carId = c
                      /\ orders[i].status # "DELIVERED"
                      /\ orders'[i].status = "DELIVERED"
             /\ (carStatus'[c] = "AVAILABLE" /\ carStatus[c] # "AVAILABLE")
                => \E i \in 1..Len(orders) :
                      /\ orders[i].carId = c
                      /\ orders[i].status # "CANCELLED"
                      /\ orders'[i].status = "CANCELLED"
                      /\ carStatus[c] = "RESERVED"]_vars

\* ------------- the stock ledger: orders and explicit stock adjustments
\* serving a request in a run that keeps the net of the stock adjustments
LedgerServe(r, adj) ==
    /\ Bounded(r.db)
    /\ \A p \in Parts : adj[p] <= MaxAdjusted /\ 0 - adj[p] <= MaxAdjusted
    /\ stock' = r.db.stock
    /\ carStatus' = r.db.carStatus
    /\ orders' = r.db.orders
    /\ items' = r.db.items
    /\ adjusted' = adj
    /\ UNCHANGED <<notes, stock0, accounts, hist, services, now, procs, resp>>

\* bodies ordering one item of the first part
LedgerBodies ==
    Bodies(Users, {0}, {<<Item(1, q)>> : q \in 1..MaxQty},
           {"none"}, {"none"})

LedgerCreateOrder ==
    \E req \in LedgerBodies : LedgerServe(createOrder(DB, req), adjusted)

LedgerUpdateOrderStatus ==
    \E id \in 1..(MaxOrders + 1), status \in Opt(OrderStatuses) :
        LedgerServe(updateOrderStatus(DB, id, status), adjusted)

LedgerCancelOrder ==
    \E id \in 1..(MaxOrders + 1) : LedgerServe(cancelOrder(DB, id), adjusted)

LedgerAdjustStock ==
    \E id \in PartIds, quantity \in 0..MaxQty, operation \in {"add", "subtract"} :
        LET r == adjustStock(DB, id, quantity, operation)
        IN LedgerServe(r, IF r.code = 200
                          THEN [adjusted EXCEPT ![id] = IF operation = "add"
                                                        THEN @ + quantity
                                                        ELSE @ - quantity]
                          ELSE adjusted)

LedgerInit == InitWith({})

LedgerNext ==
    \/ LedgerCreateOrder
    \/ LedgerUpdateOrderStatus
    \/ LedgerCancelOrder
    \/ LedgerAdjustStock

SpecLedger == LedgerInit /\ [][LedgerNext]_vars

\* the quantity of part p held by orders that are not CANCELLED, from row i on
RECURSIVE QuantityHeld(_, _)
QuantityHeld(p, i) ==
    IF i > Len(items) THEN 0
    ELSE (IF items[i].sparePartId = p /\ orders[items[i].orderId].status # "CANCELLED"
          THEN items[i].quantity
          ELSE 0) + QuantityHeld(p, i + 1)

\* C16: after any sequence of CreateOrder, UpdateOrderStatus, CancelOrder and
\* AdjustStock calls, the stock of every part is its initial stock, plus the
\* net of the explicit adjustments, minus the quantities of the order items
\* for that part whose order is not CANCELLED.
C16_StockLedger ==
    \A p \in Parts : stock[p] = stock0[p] + adjusted[p] - QuantityHeld(p, 1)

\* C17: DELIVERED and CANCELLED are terminal: once an order is DELIVERED or
\* CANCELLED, neither UpdateOrderStatus nor CancelOrder changes its status.
C17_TerminalStatusKept ==
    [][\A i \in 1..Len(orders) :
          orders[i].status \in {"DELIVERED", "CANCELLED"}
          => orders'[i].status = orders[i].status]_vars

\* ------------------------- stock adjustments and what they report
\* POST /api/spare-parts/:id/adjust-stock, with the body it was sent and the
\* adjustmentDetails it answered
ReportedAdjustStock ==
    \E id \in PartIds, quantity \in 0..MaxQty, operation \in {"add", "subtract", "set"} :
        LET r == adjustStock(DB, id, quantity, operation)
        IN /\ Bounded(r.db)
           /\ stock' = r.db.stock
           /\ resp' = [op |-> "adjustStock", code |-> r.code, err |-> r.err,
                       id |-> id, quantity |-> quantity, operation |-> operation,
                       previousStock |-> IF r.code = 200 THEN r.previousStock ELSE 0 - 1,
                       currentStock |-> IF r.code = 200 THEN r.currentStock ELSE 0 - 1]
           /\ UNCHANGED <<carStatus, orders, items, notes, stock0, accounts, hist, adjusted,
                          services, now, procs>>

ReportedInit == InitWith({})

ReportedNext == ReportedAdjustStock

SpecAdjust == ReportedInit /\ [][ReportedNext]_vars

\* C18: an AdjustStock that subtracts more than the part's current stock is
\* refused with 400 (not enough stock) and leaves the stock as it was; every
\* successful AdjustStock sets the stock to the previous stock plus (add) or
\* minus (subtract) the quantity, and reports as previousStock and
\* currentStock the stock held before and after the call.
C18_AdjustStockChecked ==
    [][(/\ resp'.op = "adjustStock"
        /\ resp'.id \in Parts
        /\ resp'.quantity > 0
        /\ resp'.operation \in {"add", "subtract"})
       => LET p == resp'.id
              q == resp'.quantity
          IN IF resp'.operation = "subtract" /\ q > stock[p]
             THEN /\ resp'.code = 400
                  /\ resp'.err = "InsufficientStock"
                  /\ UNCHANGED stock
             ELSE /\ resp'.code = 200
                  /\ stock' = [stock EXCEPT ![p] = IF resp'.operation = "add"
                                                   THEN @ + q ELSE @ - q]
                  /\ resp'.previousStock = stock[p]
                  /\ resp'.currentStock = stock'[p]]_vars

\* C18 witness: with one unit left of a part, a subtraction of two has just
\* been refused.
C18_Witness ==
    /\ resp.op = "adjustStock"
    /\ resp.err = "InsufficientStock"
    /\ resp.operation = "subtract"
    /\ resp.id \in Parts
    /\ stock[resp.id] = 1
    /\ resp.quantity = 2

\* ------------------------------------------------ service appointments
ServiceStatuses == {"SCHEDULED", "IN_PROGRESS", "COMPLETED", "CANCELLED"}

ServiceTypes == 1..NumServiceTypes

\* scheduledDate values, in hours; NoDate is a body without scheduledDate
Dates == 0..MaxTime

NoDate == 0 - 1

\* 2 * 60 * 60 * 1000 milliseconds, in hours
ConflictWindow == 2

InWindowStrict(date, around) ==
    /\ around - ConflictWindow < date
    /\ date < around + ConflictWindow

\* scheduledDate: { [Op.between]: [around - 2 hours, around + 2 hours] }
InWindow(date, around) ==
    /\ around - ConflictWindow <= date
    /\ date <= around + ConflictWindow

\* Service.findOne({ where: { id: { [Op.ne]: except }, scheduledDate: ...,
\* status: { [Op.in]: ['SCHEDULED', 'IN_PROGRESS'] } } }) finds a row
conflictingService(svc, date, except) ==
    \E i \in 1..Len(svc) :
        /\ i # except
        /\ InWindow(svc[i].scheduledDate, date)
        /\ svc[i].status \in {"SCHEDULED", "IN_PROGRESS"}

\* the outcome of a service handler: the services table it leaves, its answer
ServiceOutcome(svc, code, err, id) ==
    [services |-> svc, code |-> code, err |-> err, id |-> id]

createService(svc, clock, req) ==
    IF req.scheduledDate = NoDate THEN ServiceOutcome(svc, 400, "Validation", 0)
    ELSE IF req.userId \notin Users
    THEN ServiceOutcome(Rollback(svc, svc), 404, "UserNotFound", 0)
    ELSE IF req.carId \notin Cars
    THEN ServiceOutcome(Rollback(svc, svc), 404, "CarNotFound", 0)
    ELSE IF req.serviceTypeId \notin ServiceTypes
    THEN ServiceOutcome(Rollback(svc, svc), 404, "ServiceTypeNotFound", 0)
    ELSE IF req.scheduledDate < clock
    THEN ServiceOutcome(Rollback(svc, svc), 400, "PastDate", 0)
    ELSE IF conflictingService(svc, req.scheduledDate, 0)
    THEN ServiceOutcome(Rollback(svc, svc), 400, "Conflict", 0)
    ELSE LET service == [scheduledDate |-> req.scheduledDate,
                         status |-> BodyField(req.status, "SCHEDULED"),
                         notes |-> 0]
         IN ServiceOutcome(Commit(svc, Append(svc, service)), 201, "", Len(svc) + 1)

validTransitionsLoose(current) ==
    IF current = "CANCELLED" THEN {} ELSE {"IN_PROGRESS", "COMPLETED", "CANCELLED"}

\* const validTransitions = { 'SCHEDULED': [...], 'IN_PROGRESS': [...], ... }
validTransitions(current) ==
    CASE current = "SCHEDULED" -> {"IN_PROGRESS", "CANCELLED"}
      [] current = "IN_PROGRESS" -> {"COMPLETED", "CANCELLED"}
      [] current = "COMPLETED" -> {}
      [] current = "CANCELLED" -> {}

updateService(svc, clock, id, scheduledDate, status) ==
    IF status \notin Opt(ServiceStatuses)
    THEN ServiceOutcome(svc, 400, "Validation", 0)
    ELSE IF id \notin 1..Len(svc)
    THEN ServiceOutcome(Rollback(svc, svc), 404, "ServiceNotFound", 0)
    ELSE LET service == svc[id]
             tx1 == IF scheduledDate # NoDate
                    THEN [svc EXCEPT ![id].scheduledDate = scheduledDate]
                    ELSE svc
             tx2 == IF status # "none" THEN [tx1 EXCEPT ![id].status = status] ELSE tx1
         IN IF /\ scheduledDate # NoDate
               /\ scheduledDate < clock
               /\ service.status = "SCHEDULED"
            THEN ServiceOutcome(Rollback(svc, svc), 400, "PastDate", id)
            ELSE IF /\ scheduledDate # NoDate
                    /\ service.status = "SCHEDULED"
                    /\ conflictingService(svc, scheduledDate, id)
            THEN ServiceOutcome(Rollback(svc, svc), 400, "Conflict", id)
            ELSE IF status # "none" /\ status \notin validTransitions(service.status)
            THEN ServiceOutcome(Rollback(svc, svc), 400, "InvalidTransition", id)
            ELSE ServiceOutcome(Commit(svc, tx2), 200, "", id)

cancelService(svc, id) ==
    IF id \notin 1..Len(svc)
    THEN ServiceOutcome(Rollback(svc, svc), 404, "ServiceNotFound", 0)
    ELSE IF svc[id].status = "COMPLETED" \/ svc[id].status = "CANCELLED"
    THEN ServiceOutcome(Rollback(svc, svc), 400, "InvalidState", id)
    ELSE ServiceOutcome(Commit(svc, [svc EXCEPT ![id].status = "CANCELLED",
                                                ![id].notes = @ + 1]),
                        200, "", id)

\* the bodies POST /api/services is sent, with scheduledDate in dates: the
\* references all name rows, or one of them names none
ServiceBodies(dates, statuses) ==
    [userId : Users, carId : {1}, serviceTypeId : ServiceTypes,
     scheduledDate : dates, status : statuses]
    \cup [userId : {NumUsers + 1}, carId : {1}, serviceTypeId : ServiceTypes,
          scheduledDate : {MaxTime}, status : {"none"}]
    \cup [userId : Users, carId : {NumCars + 1}, serviceTypeId : ServiceTypes,
          scheduledDate : {MaxTime}, status : {"none"}]
    \cup [userId : Users, carId : {1}, serviceTypeId : {NumServiceTypes + 1},
          scheduledDate : {MaxTime}, status : {"none"}]

\* serving a service request: the table the handler leaves, and the record of
\* the request and of its answer (no record when the run does not observe it)
ServiceServe(r, op, req, observed) ==
    /\ Len(r.services) <= MaxServices
    /\ services' = r.services
    /\ resp' = IF observed
               THEN [op |-> op, code |-> r.code, err |-> r.err, id |-> r.id,
                     userId |-> req.userId, carId |-> req.carId,
                     serviceTypeId |-> req.serviceTypeId,
                     scheduledDate |-> req.scheduledDate, status |-> req.status]
               ELSE NoResp
    /\ UNCHANGED <<dbVars, notes, stock0, accounts, hist, adjusted, now, procs>>

CreateServiceFrom(bodies) ==
    \E req \in bodies :
        ServiceServe(createService(services, now, req), "createService", req, TRUE)

UpdateServiceWith(dates, observed) ==
    \E id \in 1..(MaxServices + 1), scheduledDate \in dates,
       status \in Opt(ServiceStatuses) :
        ServiceServe([updateService(services, now, id, scheduledDate, status)
                         EXCEPT !.id = id],
                     "updateService",
                     [userId |-> 0, carId |-> 0, serviceTypeId |-> 0,
                      scheduledDate |-> scheduledDate, status |-> status],
                     observed)

CancelServiceOf(observed) ==
    \E id \in 1..(MaxServices + 1) :
        ServiceServe([cancelService(services, id) EXCEPT !.id = id],
                     "cancelService",
                     [userId |-> 0, carId |-> 0, serviceTypeId |-> 0,
                      scheduledDate |-> NoDate, status |-> "CANCELLED"],
                     observed)

\* time passes between requests
Tick ==
    /\ now < MaxTime
    /\ now' = now + 1
    /\ UNCHANGED <<dbVars, notes, stock0, accounts, hist, adjusted, services, procs, resp>>

\* -------- status changes of services, at the earliest and latest dates
TransitionDates == {NoDate, 0, MaxTime}

TransitionCreateService == CreateServiceFrom(ServiceBodies(TransitionDates, {"none"}))

TransitionUpdateService == UpdateServiceWith(TransitionDates, TRUE)

TransitionCancelService == CancelServiceOf(TRUE)

TransitionInit == InitWith({})

TransitionNext ==
    \/ TransitionCreateService
    \/ TransitionUpdateService
    \/ TransitionCancelService
    \/ Tick

SpecTransitions == TransitionInit /\ [][TransitionNext]_vars

\* the transitions of section 4.2: SCHEDULED to IN_PROGRESS or CANCELLED,
\* IN_PROGRESS to COMPLETED or CANCELLED
AllowedTransitions ==
    {<<"SCHEDULED", "IN_PROGRESS">>, <<"SCHEDULED", "CANCELLED">>,
     <<"IN_PROGRESS", "COMPLETED">>, <<"IN_PROGRESS", "CANCELLED">>}

SchedulingCreateService ==
    CreateServiceFrom(ServiceBodies(Dates \cup {NoDate}, {"none", "COMPLETED"}))

SchedulingUpdateService == UpdateServiceWith({NoDate}, FALSE)

SchedulingCancelService == CancelServiceOf(FALSE)

SchedulingInit == InitWith({})

SchedulingNext ==
    \/ SchedulingCreateService
    \/ SchedulingUpdateService
    \/ SchedulingCancelService
    \/ Tick

SpecScheduling == SchedulingInit /\ [][SchedulingNext]_vars

\* the services in status SCHEDULED or IN_PROGRESS whose scheduledDate is
\* within 2 hours of date, before or after
WithinTwoHours(date) ==
    {i \in 1..Len(services) :
        /\ services[i].status \in {"SCHEDULED", "IN_PROGRESS"}
        /\ services[i].scheduledDate - date <= 2
        /\ date - services[i].scheduledDate <= 2}

C21_WindowsNeverOverlap ==
    \A i \in 1..Len(services), j \in 1..Len(services) :
        (/\ i # j
         /\ services[i].status \in {"SCHEDULED", "IN_PROGRESS"}
         /\ services[j].status \in {"SCHEDULED", "IN_PROGRESS"})
        => \/ services[i].scheduledDate - services[j].scheduledDate > 2
           \/ services[j].scheduledDate - services[i].scheduledDate > 2

\* C22: the initial state of a service is SCHEDULED: every service created by
\* CreateService has status SCHEDULED right after its creation, whatever the
\* request contains.
C22_CreatedScheduled ==
    [][(/\ now' = now
        /\ resp'.op = "createService"
        /\ resp'.code = 201
        /\ Len(services') = Len(services) + 1)
       => services'[Len(services')].status = "SCHEDULED"]_vars

\* ------------------ the prices of order items, for every stated amount
\* a totalPrice the body states for an item: more than any item can cost
SuppliedTotalPrice == (MaxPrice * MaxQty) + 1

\* orders for one item of part 1 that states, or leaves out, its unitPrice,
\* its discount and a totalPrice of its own
PricedBodies ==
    Bodies(Users, {0},
           {<<[sparePartId |-> 1, quantity |-> q, unitPrice |-> u, discount |-> d,
               totalPrice |-> t]>> :
               q \in 1..MaxQty, u \in {NoAmount} \cup 0..MaxPrice,
               d \in {NoAmount} \cup 0..MaxDiscount,
               t \in {NoAmount, SuppliedTotalPrice}},
           {"none"}, {"none"})

PricedCreateOrder == CreateOrderFrom(PricedBodies, TRUE)

PricedCancelOrder == CancelOrderOf(TRUE)

PricedInit == InitWith({})

PricedNext == PricedCreateOrder \/ PricedCancelOrder

SpecPrices == PricedInit /\ [][PricedNext]_vars

\* C23: the totalPrice of every order item CreateOrder persisted is its
\* unitPrice times its quantity minus its discount, exactly, for quantities
\* of 1 and more and unit prices and discounts of 0 and more; it is the
\* computed value, never the totalPrice the body stated.
C23_TotalPriceComputed ==
    \A i \in 1..Len(items) :
        /\ items[i].quantity >= 1
        /\ items[i].unitPrice >= 0
        /\ items[i].discount >= 0
        /\ items[i].totalPrice
              = (items[i].unitPrice * items[i].quantity) - items[i].discount
        /\ items[i].totalPrice # SuppliedTotalPrice

\* C23 witness: an order for two units at the highest unit price with a
\* discount of one has just been created and its item is persisted.
C23_Witness ==
    /\ resp.op = "createOrder"
    /\ resp.code = 201
    /\ \E i \in 1..Len(items) :
          /\ items[i].orderId = resp.id
          /\ items[i].quantity = 2
          /\ items[i].unitPrice = MaxPrice
          /\ items[i].discount = 1

\* ------------- failures before and after the transaction is committed
\* the answers a handler gives when the catch block is entered after
\* transaction.commit(): transaction.rollback() of the finished transaction
\* throws and nothing is answered (0), or 500 is answered
AfterCommitCodes == {0, 500}

\* the statements between transaction.commit() and the answer: Order.findByPk
\* reads the order again, outside the transaction; when it throws, the catch
\* block is entered with the transaction already committed
afterCommit(r, findByPkFails, code) ==
    IF r.err = "" /\ findByPkFails
    THEN [r EXCEPT !.code = code, !.err = "AfterCommit"]
    ELSE r

FaultyCreateOrder ==
    \E req \in NotedBodies, findByPkFails \in BOOLEAN, code \in AfterCommitCodes :
        ServeNoted(afterCommit(createOrder(DB, req), findByPkFails, code),
                   "createOrder")

FaultyUpdateOrderStatus ==
    \E id \in 1..(MaxOrders + 1), status \in Opt(OrderStatuses),
       findByPkFails \in BOOLEAN, code \in AfterCommitCodes :
        ServeNoted(afterCommit(updateOrderStatus(DB, id, status), findByPkFails, code),
                   "updateOrderStatus")

\* cancelOrder reads nothing after transaction.commit()
FaultyCancelOrder ==
    \E id \in 1..(MaxOrders + 1), failAt \in 0..3 :
        ServeNoted(cancelOrderWith(DB, id, failAt), "cancelOrder")

FaultyInit == InitWith({})

FaultyNext == FaultyCreateOrder \/ FaultyUpdateOrderStatus \/ FaultyCancelOrder

SpecFaults == FaultyInit /\ [][FaultyNext]_vars

\* C24: no operation has side effects when it reports failure: whenever
\* CreateOrder, UpdateOrderStatus or CancelOrder answers with an error, on
\* any path, the orders, their notes, the order items, every stock and every
\* car status are what they were before the call.
C24_NoSideEffectOnFailure ==
    [][(/\ resp'.op \in {"createOrder", "updateOrderStatus", "cancelOrder"}
        /\ resp'.err # "")
       => UNCHANGED <<orders, notes, items, stock, carStatus>>]_vars

\* --------------------------------------- orders next to the car endpoint
\* PUT /api/cars/:id with a body that states a status or leaves it out: the
\* route refuses a status that is none of the four, car.update(req.body)
\* writes the body's status
updateCar(db, id, status) ==
    IF status \notin Opt(CarStatuses) THEN Outcome(db, 400, "Validation", id, 0)
    ELSE IF id \notin Cars THEN Outcome(db, 404, "CarNotFound", id, 0)
    ELSE IF status = "none" THEN Outcome(db, 200, "", id, 0)
    ELSE Outcome([db EXCEPT !.carStatus[id] = status], 200, "", id, 0)

\* orders for the first car or for nothing
EditedBodies == Bodies(Users, {0, 1}, {<<>>}, {"none"}, {"none"})

EditedCreateOrder == CreateOrderFrom(EditedBodies, TRUE)

EditedUpdateOrderStatus == UpdateOrderStatusOf(TRUE)

EditedCancelOrder == CancelOrderOf(TRUE)

EditedUpdateCar ==
    /\ \E id \in 1..(NumCars + 1), status \in Opt(CarStatuses) \cup {"BROKEN"} :
          Serve(updateCar(DB, id, status), "updateCar", id, status, "none", TRUE)
    /\ UNCHANGED hist

EditedInit == InitWith({})

EditedNext ==
    \/ EditedCreateOrder
    \/ EditedUpdateOrderStatus
    \/ EditedCancelOrder
    \/ EditedUpdateCar

SpecCarEdits == EditedInit /\ [][EditedNext]_vars

\* C25: the status of a car changes only through the order lifecycle: no
\* operation other than CreateOrder, UpdateOrderStatus and CancelOrder, the
\* car update endpoint in particular, changes the status of an existing car.
C25_CarStatusByOrdersOnly ==
    [][carStatus' # carStatus
       => resp'.op \in {"createOrder", "updateOrderStatus", "cancelOrder"}]_vars

\* ------------------------------------------ who cancels whose order
Roles == {"ADMIN", "STAFF", "CUSTOMER"}

\* the accounts that authenticate without placing orders, in any role
Others == (NumUsers + 1)..(NumUsers + NumOthers)

\* req.user as auth.authenticate leaves it: a customer who places orders,
\* another account in some role, or nobody (id 0) for a request without a
\* valid token
Callers ==
    [id : Users, role : {"CUSTOMER"}]
    \cup [id : Others, role : Roles]
    \cup {[id |-> 0, role |-> "none"]}

\* auth.authenticate: a request without a valid token is answered 401
authenticate(caller) == caller.id # 0

\* POST /api/orders/:id/cancel: auth.authenticate, the validators, cancelOrder
\* (which reads req.params and req.body, never req.user)
cancelOrderRoute(db, caller, id) ==
    IF ~authenticate(caller) THEN Outcome(db, 401, "Unauthenticated", 0, 0)
    ELSE cancelOrder(db, id)

\* POST /api/orders: auth.authenticate, the validators, createOrder
createOrderRoute(db, caller, req) ==
    IF ~authenticate(caller) THEN Outcome(db, 401, "Unauthenticated", 0, 0)
    ELSE createOrder(db, req)

\* serving a request of a caller: the database it leaves, and the record of
\* the answer, of the row it was about and of the caller
OwnedServe(r, op, caller, id) ==
    /\ Bounded(r.db)
    /\ stock' = r.db.stock
    /\ carStatus' = r.db.carStatus
    /\ orders' = r.db.orders
    /\ items' = r.db.items
    /\ resp' = [op |-> op, code |-> r.code, err |-> r.err, id |-> id,
                callerId |-> caller.id, role |-> caller.role]
    /\ UNCHANGED <<notes, stock0, accounts, hist, adjusted, services, now, procs>>

OwnedCreateOrder ==
    \E caller \in Callers, req \in NotedBodies :
        LET r == createOrderRoute(DB, caller, req)
        IN OwnedServe(r, "createOrder", caller, r.id)

OwnedCancelOrder ==
    \E caller \in Callers, id \in 1..(MaxOrders + 1) :
        OwnedServe(cancelOrderRoute(DB, caller, id), "cancelOrder", caller, id)

OwnedInit == InitWith({})

OwnedNext == OwnedCreateOrder \/ OwnedCancelOrder

SpecOwners == OwnedInit /\ [][OwnedNext]_vars

\* C26: POST /api/orders/:id/cancel cancels an order only for a caller who is
\* an Admin, a Staff member or the owner of the order; for any other
\* authenticated caller the request is refused and the order, every stock and
\* every car status are unchanged.
C26_CancelByOwnerOrStaff ==
    [][(/\ resp'.op = "cancelOrder"
        /\ resp'.id \in 1..Len(orders)
        /\ resp'.role \notin {"ADMIN", "STAFF"}
        /\ resp'.callerId # orders[resp'.id].userId)
       => (/\ resp'.code >= 400
           /\ UNCHANGED <<orders, stock, carStatus>>)]_vars

\* ---------------------- the transaction each handler opens and finishes
\* the state of the handler's transaction when its answer is sent: every
\* handler opens one before its try block; the validation failure answers
\* 400 and returns, every other refusal and the catch block roll back first,
\* the success path commits
transactionAfter(r) ==
    IF r.err = "Validation" THEN "open"
    ELSE IF r.err = "" THEN "commit"
    ELSE "rollback"

\* serving a request to either group of handlers: the tables it leaves, and
\* the record of the answer and of the transaction
HandledServe(db, svc, op, r) ==
    /\ Bounded(db)
    /\ Len(svc) <= MaxServices
    /\ stock' = db.stock
    /\ carStatus' = db.carStatus
    /\ orders' = db.orders
    /\ items' = db.items
    /\ services' = svc
    /\ resp' = [op |-> op, code |-> r.code, err |-> r.err,
                transaction |-> transactionAfter(r)]
    /\ UNCHANGED <<notes, stock0, accounts, hist, adjusted, now, procs>>

HandledCreateOrder ==
    \E req \in EditedBodies \cup BadUserBodies \cup BadCarBodies :
        LET r == createOrder(DB, req)
        IN HandledServe(r.db, services, "createOrder", r)

HandledUpdateOrderStatus ==
    \E id \in 1..(MaxOrders + 1), status \in {"none", "DELIVERED", "CANCELLED"} :
        LET r == updateOrderStatus(DB, id, status)
        IN HandledServe(r.db, services, "updateOrderStatus", r)

HandledCancelOrder ==
    \E id \in 1..(MaxOrders + 1), failAt \in 0..3 :
        LET r == cancelOrderWith(DB, id, failAt)
        IN HandledServe(r.db, services, "cancelOrder", r)

HandledCreateService ==
    \E req \in ServiceBodies({NoDate, MaxTime}, {"none"}) :
        LET r == createService(services, now, req)
        IN HandledServe(DB, r.services, "createService", r)

HandledUpdateService ==
    \E id \in 1..(MaxServices + 1), status \in Opt(ServiceStatuses) \cup {"BROKEN"} :
        LET r == updateService(services, now, id, NoDate, status)
        IN HandledServe(DB, r.services, "updateService", r)

HandledCancelService ==
    \E id \in 1..(MaxServices + 1) :
        LET r == cancelService(services, id)
        IN HandledServe(DB, r.services, "cancelService", r)

HandledInit == InitWith({})

HandledNext ==
    \/ HandledCreateOrder
    \/ HandledUpdateOrderStatus
    \/ HandledCancelOrder
    \/ HandledCreateService
    \/ HandledUpdateService
    \/ HandledCancelService

SpecHandlers == HandledInit /\ [][HandledNext]_vars

\* C27: every handler that opens a database transaction (createOrder,
\* updateOrderStatus, cancelOrder, createService, updateService,
\* cancelService) has committed it or rolled it back on every path on which
\* it answers, the validation failure included: no transaction is left open
\* once the handler has answered.
C27_TransactionFinished ==
    resp.op \in {"createOrder", "updateOrderStatus", "cancelOrder",
                 "createService", "updateService", "cancelService"}
    => resp.transaction \in {"commit", "rollback"}

\* C28: the two cancellation paths agree: for every order that is PENDING,
\* PROCESSING or SHIPPED, with or without a car and with any items,
\* CancelOrder and UpdateOrderStatus to CANCELLED, from the same state, leave
\* the same order status, the same stock of every part and the same status
\* of every car.
C28_CancelPathsAgree ==
    \A id \in 1..Len(orders) :
        orders[id].status \in {"PENDING", "PROCESSING", "SHIPPED"}
        => LET byCancel == cancelOrder(DB, id).db
               byStatus == updateOrderStatus(DB, id, "CANCELLED").db
           IN /\ byCancel.orders[id].status = byStatus.orders[id].status
              /\ byCancel.stock = byStatus.stock
              /\ byCancel.carStatus = byStatus.carStatus

\* ------------------- cancellations of one order running at the same time
\* Each await of cancelOrder and of updateOrderStatus is a step. findByPk
\* reads the committed order without locking it; an UPDATE locks its row
\* until the transaction ends; SparePart.increment is UPDATE spare_parts SET
\* stock = stock + quantity, relative to the committed stock; COMMIT makes
\* the writes the database.
OrderRow(id) == <<"order", id>>

\* a cancellation that has not arrived yet: where it stands, its handler and
\* its order, the status its findByPk read, the item row it is at, what its
\* transaction wrote, the row locks it holds, and what it answered
IdleCancel ==
    [pc |-> "idle", op |-> "none", id |-> 0, previousStatus |-> "none", i |-> 0,
     wStatus |-> "none", wCar |-> "none", inc |-> [p \in Parts |-> 0],
     s |-> {}, x |-> {}, code |-> 0, err |-> ""]

\* the first row of order_items, from row i on, that belongs to order id and
\* names a part; 0 when there is none
FirstItem(id, i) ==
    LET rows == {k \in i..Len(items) :
                    items[k].orderId = id /\ items[k].sparePartId # 0}
    IN IF rows = {} THEN 0 ELSE CHOOSE k \in rows : \A j \in rows : k <= j

\* the statements of each handler that write, in the order it runs them
Statements(op) ==
    IF op = "cancelOrder" THEN <<"updateOrder", "updateCar", "increment", "commit">>
    ELSE <<"updateCar", "increment", "updateOrder", "commit">>

\* whether call c runs statement st
Runs(c, st) ==
    CASE st = "updateOrder" -> TRUE
      [] st = "updateCar" ->
            /\ orders[c.id].carId # 0
            /\ \/ c.op = "cancelOrder"
               \/ carStatusFor("CANCELLED", c.previousStatus) # "none"
      [] st = "increment" ->
            /\ FirstItem(c.id, 1) # 0
            /\ \/ c.op = "cancelOrder"
               \/ c.previousStatus \in {"PENDING", "PROCESSING"}
      [] st = "commit" -> TRUE

\* call c at the first statement it runs from the k-th of its handler on
RECURSIVE GoTo(_, _)
GoTo(c, k) ==
    LET st == Statements(c.op)[k]
    IN IF Runs(c, st)
       THEN [c EXCEPT !.pc = st, !.i = IF st = "increment" THEN FirstItem(c.id, 1) ELSE 0]
       ELSE GoTo(c, k + 1)

\* call c after its statement st
After(c, st) ==
    GoTo(c, 1 + CHOOSE k \in 1..Len(Statements(c.op)) : Statements(c.op)[k] = st)

\* the row a cancellation waits for, if it waits
CancelWaitsFor(me) ==
    LET c == procs[me]
        row == CASE c.pc = "updateOrder" -> OrderRow(c.id)
                 [] c.pc = "updateCar" -> CarRow(orders[c.id].carId)
                 [] c.pc = "increment" -> PartRow(items[c.i].sparePartId)
                 [] OTHER -> <<"none", 0>>
    IN IF row[1] # "none" /\ ~CanLock(me, row) THEN {row} ELSE {}

\* the answer of a cancellation whose transaction is rolled back
CancelAnswer(c, code, err) ==
    [c EXCEPT !.pc = "done", !.code = code, !.err = err, !.wStatus = "none",
              !.wCar = "none", !.inc = IdleCancel.inc, !.s = {}, !.x = {}]

\* sequelize.transaction(): POST /api/orders/:id/cancel, or PUT
\* /api/orders/:id/status with status CANCELLED, arrives
CancelBegin(me) ==
    /\ procs[me].pc = "idle"
    /\ \E op \in {"cancelOrder", "updateOrderStatus"}, id \in 1..(Len(orders) + 1) :
          Step(me, [procs[me] EXCEPT !.pc = "findOrder", !.op = op, !.id = id])

\* Order.findByPk and the checks on the status it read
FindOrder(me) ==
    LET c == procs[me]
        read == [c EXCEPT !.previousStatus = orders[c.id].status]
    IN /\ c.pc = "findOrder"
       /\ Step(me, IF c.id \notin 1..Len(orders) THEN CancelAnswer(c, 404, "OrderNotFound")
                   ELSE IF c.op = "cancelOrder" /\ ~Cancellable(read.previousStatus)
                   THEN CancelAnswer(c, 400, "InvalidState")
                   ELSE IF /\ c.op = "updateOrderStatus"
                           /\ ~StatusChanged("CANCELLED", read.previousStatus)
                   THEN [read EXCEPT !.pc = "commit"]
                   ELSE GoTo(read, 1))

\* order.update({ status: 'CANCELLED' })
UpdateOrder(me) ==
    LET c == procs[me] IN
    /\ c.pc = "updateOrder"
    /\ CancelWaitsFor(me) = {}
    /\ Step(me, After([c EXCEPT !.wStatus = "CANCELLED", !.x = @ \cup {OrderRow(c.id)}],
                      "updateOrder"))

\* Car.update({ status }, { where: { id: order.carId } })
UpdateCar(me) ==
    LET c == procs[me]
        carSt == IF c.op = "cancelOrder" THEN "AVAILABLE"
                 ELSE carStatusFor("CANCELLED", c.previousStatus)
    IN /\ c.pc = "updateCar"
       /\ CancelWaitsFor(me) = {}
       /\ Step(me, After([c EXCEPT !.wCar = carSt,
                                   !.x = @ \cup {CarRow(orders[c.id].carId)}],
                         "updateCar"))

\* SparePart.increment({ stock: item.quantity }, { where: { id } }), for the
\* item row the loop is at
IncrementStock(me) ==
    LET c == procs[me]
        p == items[c.i].sparePartId
        done == [c EXCEPT !.inc[p] = Increment(@, items[c.i].quantity),
                          !.x = @ \cup {PartRow(p)}]
        next == FirstItem(c.id, c.i + 1)
    IN /\ c.pc = "increment"
       /\ CancelWaitsFor(me) = {}
       /\ Step(me, IF next # 0 THEN [done EXCEPT !.i = next]
                   ELSE After(done, "increment"))

\* transaction.commit() and the 200 answer
CommitCancel(me) ==
    LET c == procs[me] IN
    /\ c.pc = "commit"
    /\ orders' = IF c.wStatus # "none"
                 THEN [orders EXCEPT ![c.id].status = c.wStatus]
                 ELSE orders
    /\ carStatus' = IF c.wCar # "none"
                    THEN [carStatus EXCEPT ![orders[c.id].carId] = c.wCar]
                    ELSE carStatus
    /\ stock' = [p \in Parts |-> stock[p] + c.inc[p]]
    /\ procs' = [procs EXCEPT ![me] = [CancelAnswer(c, 200, "") EXCEPT !.code = 200]]
    /\ UNCHANGED <<items, notes, stock0, accounts, hist, adjusted, services, now, resp>>

\* the database ends a deadlock by failing one of the two waiting statements
CancelDeadlock(me) ==
    /\ \E other \in Procs \ {me} :
          /\ CancelWaitsFor(me) \cap procs[other].x # {}
          /\ CancelWaitsFor(other) \cap procs[me].x # {}
    /\ Step(me, CancelAnswer(procs[me], 500, "Internal"))

\* orders for the first car or none, with no item, one item or an item of
\* each of the first two parts
RaceBodies ==
    Bodies(Users, {0, 1},
           {<<>>, <<Item(1, 1), Item(NumParts, 1)>>}
           \cup {<<Item(1, q)>> : q \in 1..MaxQty},
           {"none"}, {"none"})

\* the state in which one order has just been created
RaceInit ==
    \E req \in RaceBodies :
        LET created == createOrder(
                           [stock |-> [p \in Parts |-> MaxStock],
                            carStatus |-> [c \in Cars |-> "AVAILABLE"],
                            orders |-> <<>>, items |-> <<>>,
                            notes |-> [i \in 1..MaxOrders |-> 0]], req).db
        IN /\ stock = created.stock
           /\ carStatus = created.carStatus
           /\ orders = created.orders
           /\ items = created.items
           /\ notes = created.notes
           /\ stock0 = stock
           /\ hist = <<>>
           /\ adjusted = [p \in Parts |-> 0]
           /\ services = <<>>
           /\ now = 0
           /\ accounts = NoAccounts
           /\ procs = [q \in Procs |-> IdleCancel]
           /\ resp = NoResp

RaceNext ==
    \E me \in Procs :
        \/ CancelBegin(me)
        \/ FindOrder(me)
        \/ UpdateOrder(me)
        \/ UpdateCar(me)
        \/ IncrementStock(me)
        \/ CommitCancel(me)
        \/ CancelDeadlock(me)

SpecRace == RaceInit /\ [][RaceNext]_vars

\* C29: two cancellations of the same order running at the same time
\* (CancelOrder with CancelOrder, or CancelOrder with UpdateOrderStatus to
\* CANCELLED) restore the stock of each item's part exactly once, under every
\* interleaving of their steps: once both have answered and the order is
\* CANCELLED, the stock of every part is the stock before the cancellations
\* plus the quantity the order holds of it.
C29_StockRestoredOnce ==
    (/\ \A q \in Procs : procs[q].pc = "done" /\ procs[q].id = 1
     /\ \E q \in Procs : procs[q].op = "cancelOrder"
     /\ orders[1].status = "CANCELLED")
    => \A p \in Parts : stock[p] = stock0[p] + QuantityOrdered(items, 1, p, 1)

\* ------------------------------------------------------ signup and login
Salts == 1..NumSalts

\* the passwords a body states; the route refuses those under 6 characters
Passwords == {"password1", "password2", "short"}

TooShort == {"short"}

\* the string a body states as its password
Plain(password) == [plain |-> password, salts |-> <<>>]

\* bcrypt.hash(data, 10): the hash of the string data under a fresh salt
bcryptHash(data, salt) == [data EXCEPT !.salts = Append(@, salt)]

\* bcrypt.compare(data, encrypted): data hashed under the salt that encrypted
\* carries is encrypted
bcryptCompare(data, encrypted) ==
    /\ encrypted.salts # <<>>
    /\ bcryptHash(data, encrypted.salts[Len(encrypted.salts)]) = encrypted

\* the beforeCreate hook of User: if (user.password) it is hashed
beforeCreate(password, salt) ==
    IF password # NoPassword THEN bcryptHash(password, salt) ELSE password

\* User.prototype.checkPassword
checkPassword(stored, password) == bcryptCompare(Plain(password), stored)

AuthOutcome(acc, code, err) == [accounts |-> acc, code |-> code, err |-> err]

\* POST /api/auth/signup; salt and hookSalt are the salts bcrypt draws in the
\* controller and in the hook
signup(acc, email, password, salt, hookSalt) ==
    IF password \in TooShort THEN AuthOutcome(acc, 400, "Validation")
    ELSE IF acc[email] # NoPassword THEN AuthOutcome(acc, 409, "EmailInUse")
    ELSE LET hashedPassword == bcryptHash(Plain(password), salt)
         IN AuthOutcome([acc EXCEPT ![email] = beforeCreate(hashedPassword, hookSalt)],
                        201, "")

\* POST /api/auth/login, every account being active
login(acc, email, password) ==
    IF acc[email] = NoPassword THEN AuthOutcome(acc, 401, "InvalidCredentials")
    ELSE IF ~checkPassword(acc[email], password)
    THEN AuthOutcome(acc, 401, "InvalidCredentials")
    ELSE AuthOutcome(acc, 200, "")

\* serving a request of the authentication routes
AuthServe(r, op, email, password) ==
    /\ accounts' = r.accounts
    /\ resp' = [op |-> op, code |-> r.code, err |-> r.err, email |-> email,
                password |-> password]
    /\ UNCHANGED <<dbVars, notes, stock0, hist, adjusted, services, now, procs>>

Signup ==
    \E email \in Emails, password \in Passwords, salt \in Salts, hookSalt \in Salts :
        AuthServe(signup(accounts, email, password, salt, hookSalt),
                  "signup", email, password)

Login ==
    \E email \in Emails, password \in Passwords :
        AuthServe(login(accounts, email, password), "login", email, password)

AuthInit == InitWith({})

AuthNext == Signup \/ Login

SpecAuth == AuthInit /\ [][AuthNext]_vars

\* C30: signup then login round-trips: on an account created by a signup
\* with email e and password p, a login with e and p succeeds (the credential
\* signup stored verifies against p in checkPassword) and a login with e and
\* any other password fails.
C30_SignupLoginRoundTrip ==
    [][(/\ resp'.op = "login"
        /\ accounts[resp'.email] # NoPassword)
       => (resp'.code = 200 <=> resp'.password = accounts[resp'.email].plain)]_vars

====
